---- MODULE Spec2Model ----
(***************************************************************************)
(* Model of chatbot.py: the multiline prompt reader (piped, fallback line  *)
(* mode, raw single-character mode) and the single-shot driver main().     *)
(*                                                                         *)
(* Text is a sequence of one-character strings.  The empty string "" is    *)
(* what sys.stdin.read(1) yields at end-of-input.                          *)
(***************************************************************************)
EXTENDS Integers, Sequences, FiniteSets, TLC

\* ---------------------------------------------------------------- bounds
MaxKeys == 4        \* keystrokes read in raw mode
MaxStream == 4      \* characters of a piped stream
MaxLines == 3       \* lines read in fallback line mode

\* ------------------------------------------------------------ characters
CtrlC == "^C"
CtrlS == "^S"
CR == "CR"
LF == "LF"
DEL == "DEL"
BS == "BS"
EOFCH == ""

Printable == {"a", " "}
ControlChars == {CtrlC, CtrlS, CR, LF, DEL, BS}
RawChars == Printable \cup ControlChars \cup {EOFCH}
StreamChars == Printable \cup ControlChars

\* the characters of the alphabet that str.strip() removes
Whitespace == {" ", CR, LF}

TtyModes == {"cooked", "cbreak"}

\* the lines input() may return in fallback line mode
FallbackLines == {<<>>, <<"a">>, <<" ">>, <<" ", "a">>, <<"a", " ">>}

\* ------------------------------------------------------- pure functions
Front(s) == SubSeq(s, 1, Len(s) - 1)
Last(s) == s[Len(s)]

SeqsUpTo(S, n) == UNION {[1..k -> S] : k \in 0..n}

RECURSIVE LStrip(_)
LStrip(s) ==
  IF s = <<>> THEN s
  ELSE IF Head(s) \in Whitespace THEN LStrip(Tail(s)) ELSE s

RECURSIVE RStrip(_)
RStrip(s) ==
  IF s = <<>> THEN s
  ELSE IF Last(s) \in Whitespace THEN RStrip(Front(s)) ELSE s

StripLeftOnly(s) == LStrip(s)
Strip(s) == RStrip(LStrip(s))

\* "".join(current): the elements of the list concatenated; an element ""
\* contributes nothing
NonEmptyStr(c) == c # ""
JoinChars(cur) == SelectSeq(cur, NonEmptyStr)

\* "\n".join(lines)
RECURSIVE JoinLines(_)
JoinLines(ls) ==
  IF ls = <<>> THEN <<>>
  ELSE IF Len(ls) = 1 THEN ls[1]
  ELSE ls[1] \o <<LF>> \o JoinLines(Tail(ls))

\* ------------------------------------------------ raw-mode key handlers
IsCancelNever(ch) == FALSE
IsCancel(ch) == ch = CtrlC
IsSubmit(ch) == ch = CtrlS
IsNewline(ch) == ch \in {CR, LF}
IsBackspaceDelOnly(ch) == ch = DEL
IsBackspace(ch) == ch \in {DEL, BS}

OnNewlineOverwrite(ls, cur) ==
  [lines |-> <<JoinChars(cur)>>, current |-> <<>>]
OnNewline(ls, cur) ==
  [lines |-> Append(ls, JoinChars(cur)), current |-> <<>>]

OnBackspaceIntoLines(ls, cur) ==
  IF cur # <<>> THEN [lines |-> ls, current |-> Front(cur)]
  ELSE IF ls # <<>> THEN [lines |-> Front(ls), current |-> Last(ls)]
  ELSE [lines |-> ls, current |-> cur]
OnBackspace(ls, cur) ==
  [lines |-> ls, current |-> IF cur # <<>> THEN Front(cur) ELSE cur]

OnCharReplace(ls, cur, ch) == [lines |-> ls, current |-> <<ch>>]
OnChar(ls, cur, ch) == [lines |-> ls, current |-> Append(cur, ch)]

OnSubmit(ls, cur) == Strip(JoinLines(Append(ls, JoinChars(cur))))

RestoreSkipped(old) == "raw"
RestoreAttrs(old) == old

\* display: the text of the current display line
EchoChar(scr, ch) == IF ch = "" THEN scr ELSE Append(scr, ch)
EraseChar(scr) == IF scr # <<>> THEN Front(scr) ELSE scr

\* line 85: the erase sequence is written only when the buffer is non-empty
ShouldEraseAlways(cur) == TRUE
ShouldErase(cur) == cur # <<>>

\* ------------------------------------------------------ driver helpers
IsBlankNever(p) == FALSE
IsBlankOnlyIfEmpty(p) == p = <<>>
IsBlank(p) == Strip(p) = <<>>
CredentialNotRequired(local, key) == FALSE
MissingCredentialAnyEndpoint(local, key) == ~key
MissingCredential(local, key) == ~local /\ ~key

LOCAL_LLM_BASE_URL == "http://localhost:1234/v1"
DefaultBaseUrl == "default"

\* a response: usage is <<>> when the backend omits it, else <<total_tokens>>;
\* choices is "none" for an empty list, else the content of the first choice
Responses ==
  [status : {"ok"}, usage : {<<>>, <<42>>},
   choices : {"none", "null", "empty", "text"}]
NoResponse == [status |-> "none", usage |-> <<>>, choices |-> "none"]
FailedResponse == [status |-> "error", usage |-> <<>>, choices |-> "none"]

\* line 145
TotalTokensUnknown(usage) == IF usage # <<>> THEN usage[1] ELSE -1
TotalTokens(usage) == IF usage # <<>> THEN usage[1] ELSE 0

\* line 152: if content
HasContent(choices) == choices = "text"

VARIABLES
  isatty,       \* sys.stdin.isatty()
  hasTermios,   \* import termios, tty succeeds
  argsLocal,    \* args.local
  apiKey,       \* OPENAI_API_KEY is set and non-empty
  ttyBefore,    \* terminal mode before the reader started
  termMode,     \* current terminal mode
  old_attrs,    \* attributes captured by tcgetattr
  pc,           \* position of the process
  lines,        \* Completed Lines
  current,      \* Line Buffer
  screen,       \* text on the current display line
  echoed,       \* characters echoed on the current display line
  erased,       \* erase sequences written on the current display line
  consumed,     \* characters read from standard input so far
  returned,     \* read_multiline_prompt returned a value
  raised,       \* exception that left read_multiline_prompt
  prompt,       \* value returned by the reader
  client,       \* base URL of the constructed client
  requests,     \* user messages of the completion requests issued
  response,     \* outcome of the completion call
  total_tokens, \* token count printed, -1 while none is printed
  printed,      \* notices printed by the driver
  exitStatus    \* process exit status, -1 while running

vars == <<isatty, hasTermios, argsLocal, apiKey, ttyBefore, termMode,
          old_attrs, pc, lines, current, screen, echoed, erased, consumed,
          returned, raised, prompt, client, requests, response, total_tokens,
          printed, exitStatus>>

config == <<isatty, hasTermios, argsLocal, apiKey, ttyBefore>>
reader == <<lines, current, screen, echoed, erased, consumed>>
driver == <<client, requests, response, total_tokens, exitStatus>>

Init ==
  /\ isatty \in BOOLEAN
  /\ hasTermios \in BOOLEAN
  /\ argsLocal \in BOOLEAN
  /\ apiKey \in BOOLEAN
  /\ ttyBefore \in (IF isatty /\ hasTermios THEN TtyModes ELSE {"cooked"})
  /\ termMode = ttyBefore
  /\ old_attrs = "unset"
  /\ pc = "start"
  /\ lines = <<>>
  /\ current = <<>>
  /\ screen = <<>>
  /\ echoed = 0
  /\ erased = 0
  /\ consumed = <<>>
  /\ returned = FALSE
  /\ raised = "none"
  /\ prompt = <<>>
  /\ client = "none"
  /\ requests = <<>>
  /\ response = NoResponse
  /\ total_tokens = -1
  /\ printed = <<>>
  /\ exitStatus = -1

\* ------------------------------------------------------------ the reader

\* lines 42-44: piped input, the whole stream is read and stripped
PipedRead ==
  /\ pc = "start"
  /\ ~isatty
  /\ \E stream \in SeqsUpTo(StreamChars, MaxStream) :
       /\ consumed' = stream
       /\ prompt' = Strip(stream)
  /\ returned' = TRUE
  /\ pc' = "read_done"
  /\ UNCHANGED <<config, termMode, old_attrs, lines, current, screen, echoed,
                 erased, raised, driver, printed>>

\* lines 49-53: termios is unavailable, the fallback loop starts
FallbackStart ==
  /\ pc = "start"
  /\ isatty /\ ~hasTermios
  /\ lines' = <<>>
  /\ printed' = printed \o <<"Banner">>
  /\ pc' = "fallback"
  /\ UNCHANGED <<config, termMode, old_attrs, current, screen, echoed,
                 erased, consumed, returned, raised, prompt, driver>>

\* lines 54-59: input() returned a line
FallbackLine ==
  /\ pc = "fallback"
  /\ Len(lines) < MaxLines
  /\ \E line \in FallbackLines :
       lines' = Append(lines, line)
  /\ UNCHANGED <<config, termMode, old_attrs, pc, current, screen, echoed,
                 erased, consumed, returned, raised, prompt, driver, printed>>

\* lines 57-60: input() raised EOFError
FallbackEOF ==
  /\ pc = "fallback"
  /\ prompt' = JoinLines(lines)
  /\ returned' = TRUE
  /\ pc' = "read_done"
  /\ UNCHANGED <<config, termMode, old_attrs, lines, current, screen, echoed,
                 erased, consumed, raised, driver, printed>>

\* lines 62-72: attributes captured, banner printed, terminal set raw
RawStart ==
  /\ pc = "start"
  /\ isatty /\ hasTermios
  /\ old_attrs' = termMode
  /\ lines' = <<>>
  /\ current' = <<>>
  /\ printed' = printed \o <<"Banner">>
  /\ termMode' = "raw"
  /\ pc' = "raw"
  /\ UNCHANGED <<config, screen, echoed, erased, consumed, returned, raised,
                 prompt, driver>>

\* lines 74-76 and 96-97: Ctrl-C raises KeyboardInterrupt
RawCancel ==
  /\ pc = "raw"
  /\ Len(consumed) < MaxKeys
  /\ \E ch \in RawChars :
       /\ IsCancel(ch)
       /\ consumed' = Append(consumed, ch)
  /\ raised' = "KeyboardInterrupt"
  /\ termMode' = RestoreAttrs(old_attrs)
  /\ pc' = "aborted"
  /\ UNCHANGED <<config, old_attrs, lines, current, screen, echoed, erased,
                 returned, prompt, driver, printed>>

\* lines 77-78 and 94-97: Ctrl-S leaves the loop and the text is returned
RawSubmit ==
  /\ pc = "raw"
  /\ Len(consumed) < MaxKeys
  /\ \E ch \in RawChars :
       /\ ~IsCancel(ch) /\ IsSubmit(ch)
       /\ consumed' = Append(consumed, ch)
  /\ lines' = Append(lines, JoinChars(current))
  /\ prompt' = OnSubmit(lines, current)
  /\ returned' = TRUE
  /\ termMode' = RestoreAttrs(old_attrs)
  /\ pc' = "read_done"
  /\ UNCHANGED <<config, old_attrs, current, screen, echoed, erased, raised,
                 driver, printed>>

\* lines 79-83
RawNewline ==
  /\ pc = "raw"
  /\ Len(consumed) < MaxKeys
  /\ \E ch \in RawChars :
       /\ ~IsCancel(ch) /\ ~IsSubmit(ch) /\ IsNewline(ch)
       /\ consumed' = Append(consumed, ch)
  /\ lines' = OnNewline(lines, current).lines
  /\ current' = OnNewline(lines, current).current
  /\ screen' = <<>>
  /\ echoed' = 0
  /\ erased' = 0
  /\ UNCHANGED <<config, termMode, old_attrs, pc, returned, raised, prompt,
                 driver, printed>>

\* lines 84-88
RawBackspace ==
  /\ pc = "raw"
  /\ Len(consumed) < MaxKeys
  /\ \E ch \in RawChars :
       /\ ~IsCancel(ch) /\ ~IsSubmit(ch) /\ ~IsNewline(ch) /\ IsBackspace(ch)
       /\ consumed' = Append(consumed, ch)
  /\ lines' = OnBackspace(lines, current).lines
  /\ current' = OnBackspace(lines, current).current
  /\ screen' = IF ShouldErase(current) THEN EraseChar(screen) ELSE screen
  /\ erased' = IF ShouldErase(current) THEN erased + 1 ELSE erased
  /\ echoed' = echoed
  /\ UNCHANGED <<config, termMode, old_attrs, pc, returned, raised, prompt,
                 driver, printed>>

\* lines 89-92: any other value of ch, the "" of end-of-input included
RawChar ==
  /\ pc = "raw"
  /\ Len(consumed) < MaxKeys
  /\ \E ch \in RawChars :
       /\ ~IsCancel(ch) /\ ~IsSubmit(ch) /\ ~IsNewline(ch) /\ ~IsBackspace(ch)
       /\ consumed' = Append(consumed, ch)
       /\ lines' = OnChar(lines, current, ch).lines
       /\ current' = OnChar(lines, current, ch).current
       /\ screen' = EchoChar(screen, ch)
       /\ echoed' = IF ch = "" THEN echoed ELSE echoed + 1
       /\ erased' = erased
  /\ UNCHANGED <<config, termMode, old_attrs, pc, returned, raised, prompt,
                 driver, printed>>

\* lines 74, 96-97: the read (or the echo) fails with an unexpected error;
\* the finally clause runs and the exception leaves main uncaught
RawFailure ==
  /\ pc = "raw"
  /\ raised' = "OSError"
  /\ termMode' = RestoreAttrs(old_attrs)
  /\ exitStatus' = 1
  /\ pc' = "done"
  /\ UNCHANGED <<config, old_attrs, reader, returned, prompt, client,
                 requests, response, total_tokens, printed>>

\* ------------------------------------------------------------ the driver

CatchAbortUncaught ==
  /\ pc = "aborted"
  /\ printed' = printed \o <<"Traceback">>
  /\ exitStatus' = 1
  /\ pc' = "done"
  /\ UNCHANGED <<config, termMode, old_attrs, reader, returned, raised,
                 prompt, client, requests, response, total_tokens>>

\* lines 111-113
CatchAbort ==
  /\ pc = "aborted"
  /\ printed' = printed \o <<"Aborted">>
  /\ exitStatus' = 0
  /\ pc' = "done"
  /\ UNCHANGED <<config, termMode, old_attrs, reader, returned, raised,
                 prompt, client, requests, response, total_tokens>>

\* lines 115-117
ExitEmpty ==
  /\ pc = "read_done"
  /\ IsBlank(prompt)
  /\ printed' = printed \o <<"Empty">>
  /\ exitStatus' = 0
  /\ pc' = "done"
  /\ UNCHANGED <<config, termMode, old_attrs, reader, returned, raised,
                 prompt, client, requests, response, total_tokens>>

\* lines 115, 119
Submitting ==
  /\ pc = "read_done"
  /\ ~IsBlank(prompt)
  /\ printed' = printed \o <<"Submitting">>
  /\ pc' = "submitting"
  /\ UNCHANGED <<config, termMode, old_attrs, reader, returned, raised,
                 prompt, driver>>

\* lines 122-126
ExitMissingCredential ==
  /\ pc = "submitting"
  /\ MissingCredential(argsLocal, apiKey)
  /\ printed' = printed \o <<"KeyError">>
  /\ exitStatus' = 1
  /\ pc' = "done"
  /\ UNCHANGED <<config, termMode, old_attrs, reader, returned, raised,
                 prompt, client, requests, response, total_tokens>>

\* lines 120-121, 127-128
MakeClient ==
  /\ pc = "submitting"
  /\ ~MissingCredential(argsLocal, apiKey)
  /\ client' = IF argsLocal THEN LOCAL_LLM_BASE_URL ELSE DefaultBaseUrl
  /\ pc' = "client_ready"
  /\ UNCHANGED <<config, termMode, old_attrs, reader, returned, raised,
                 prompt, requests, response, total_tokens, printed,
                 exitStatus>>

\* lines 130-141: the completion call raises
CompleteFail ==
  /\ pc = "client_ready"
  /\ requests' = Append(requests, prompt)
  /\ response' = FailedResponse
  /\ printed' = printed \o <<"APIError">>
  /\ exitStatus' = 1
  /\ pc' = "done"
  /\ UNCHANGED <<config, termMode, old_attrs, reader, returned, raised,
                 prompt, client, total_tokens>>

\* lines 130-153: the completion call returns a response; the timing line
\* and the header are printed before choices[0] is read, which raises
\* IndexError (uncaught) when the list of choices is empty
CompleteOK ==
  /\ pc = "client_ready"
  /\ requests' = Append(requests, prompt)
  /\ \E resp \in Responses :
       /\ response' = resp
       /\ total_tokens' = TotalTokens(resp.usage)
       /\ printed' = printed \o <<"Timing", "Header">>
            \o (IF resp.choices = "none" THEN <<"Traceback">>
                ELSE IF HasContent(resp.choices) THEN <<"Reply">> ELSE <<>>)
       /\ exitStatus' = IF resp.choices = "none" THEN 1 ELSE 0
  /\ pc' = "done"
  /\ UNCHANGED <<config, termMode, old_attrs, reader, returned, raised,
                 prompt, client>>

Next ==
  \/ PipedRead
  \/ FallbackStart
  \/ FallbackLine
  \/ FallbackEOF
  \/ RawStart
  \/ RawCancel
  \/ RawSubmit
  \/ RawNewline
  \/ RawBackspace
  \/ RawChar
  \/ RawFailure
  \/ CatchAbort
  \/ ExitEmpty
  \/ Submitting
  \/ ExitMissingCredential
  \/ MakeClient
  \/ CompleteFail
  \/ CompleteOK

Spec == Init /\ [][Next]_vars

\* ---------------------------------------------------------------- claims

RawMode == isatty /\ hasTermios
FallbackMode == isatty /\ ~hasTermios
PipedMode == ~isatty

AllWhitespace(s) == \A i \in 1..Len(s) : s[i] \in Whitespace

\* p is s without its leading and trailing whitespace
IsTrimOf(p, s) ==
  /\ p = <<>> \/ (Head(p) \notin Whitespace /\ Last(p) \notin Whitespace)
  /\ \E i \in 0..Len(s) : \E j \in i..Len(s) :
       /\ p = SubSeq(s, i + 1, j)
       /\ AllWhitespace(SubSeq(s, 1, i))
       /\ AllWhitespace(SubSeq(s, j + 1, Len(s)))

\* C1: in raw mode, printable characters followed by Ctrl-S are returned
\* exactly as typed, with leading and trailing whitespace trimmed.
C1_PrintableThenSubmit ==
  (/\ RawMode
   /\ consumed # <<>>
   /\ Last(consumed) = CtrlS
   /\ \A i \in 1..(Len(consumed) - 1) : consumed[i] \in Printable)
  => /\ returned
     /\ IsTrimOf(prompt, Front(consumed))

C1_Witness ==
  /\ RawMode
  /\ consumed = <<" ", "a", "a", CtrlS>>
  /\ returned
  /\ prompt = <<"a", "a">>

\* C2: in raw mode a Ctrl-C read at any point raises KeyboardInterrupt and
\* the reader returns no text, whatever was accumulated before it.
C2_CancelAborts ==
  (RawMode /\ consumed # <<>> /\ Last(consumed) = CtrlC)
  => /\ raised = "KeyboardInterrupt"
     /\ ~returned
     /\ prompt = <<>>
     /\ pc \in {"aborted", "done"}

C2_Witness ==
  /\ RawMode
  /\ consumed = <<"a", LF, "a", CtrlC>>
  /\ lines # <<>>
  /\ current # <<>>
  /\ raised = "KeyboardInterrupt"
  /\ ~returned

\* C3: once the raw-mode reader has exited (submit, cancel or unexpected
\* failure) the terminal mode is the one captured before the switch, which is
\* the mode the terminal had before the reader started.
C3_TerminalRestored ==
  (RawMode /\ pc \notin {"start", "raw"})
  => /\ old_attrs = ttyBefore
     /\ termMode = ttyBefore

C3_Witness ==
  /\ RawMode
  /\ raised = "OSError"
  /\ consumed # <<>>
  /\ ttyBefore = "cbreak"
  /\ termMode = "cbreak"

\* C4: in raw mode an ordinary character c is appended to the Line Buffer and
\* a backspace read immediately after it removes exactly c; a backspace read
\* when the Line Buffer is empty changes neither the Line Buffer nor the
\* Completed Lines.
C4_Backspace ==
  [][(pc = "raw" /\ pc' = "raw" /\ Len(consumed') = Len(consumed) + 1)
     => LET ch == Last(consumed') IN
        /\ ch \in Printable
           => (current' = Append(current, ch) /\ lines' = lines)
        /\ (ch \in {DEL, BS} /\ consumed # <<>> /\ Last(consumed) \in Printable)
           => /\ current # <<>>
              /\ Last(current) = Last(consumed)
              /\ current' = Front(current)
              /\ lines' = lines
        /\ (ch \in {DEL, BS} /\ JoinChars(current) = <<>>)
           => (JoinChars(current') = <<>> /\ lines' = lines)]_vars

C4_Witness ==
  /\ RawMode
  /\ pc = "raw"
  /\ consumed = <<"a", LF, DEL, BS>>
  /\ lines = << <<"a">> >>
  /\ current = <<>>

\* C5: the raw-mode reader terminates and returns the assembled text both
\* when the submit character is read and when a read yields no character
\* (end-of-input); it does not stay in the loop after end-of-input.
C5_ReturnsOnSubmitOrEOF ==
  (RawMode /\ consumed # <<>> /\ Last(consumed) \in {CtrlS, EOFCH})
  => (pc # "raw" /\ returned)

RECURSIVE BeforeFirstEmpty(_)
BeforeFirstEmpty(ls) ==
  IF ls = <<>> \/ Head(ls) = <<>> THEN <<>>
  ELSE <<Head(ls)>> \o BeforeFirstEmpty(Tail(ls))

\* C6: in fallback line mode the reader stops collecting at the first empty
\* line or at end-of-input and returns the lines read before that point
\* joined by newline.
C6_FallbackStopsAtEmptyLine ==
  FallbackMode
  => /\ pc = "fallback" => (\A i \in 1..Len(lines) : lines[i] # <<>>)
     /\ returned => prompt = JoinLines(BeforeFirstEmpty(lines))

CollectedText == IF PipedMode THEN consumed ELSE JoinLines(lines)

\* C8: on every input path the prompt handed to the driver and then sent as
\* the user message is the submitted lines joined by newline with no leading
\* or trailing whitespace.
C8_SentPromptTrimmed ==
  \A i \in 1..Len(requests) :
    /\ requests[i] = prompt
    /\ IsTrimOf(requests[i], CollectedText)

\* C9: when Ctrl-S is read with nothing typed and no line accumulated, the
\* reader returns the empty string, the process exits with status 0 and no
\* completion request is issued.
C9_EmptySubmit ==
  (RawMode /\ returned /\ lines = << <<>> >>)
  => /\ prompt = <<>>
     /\ requests = <<>>
     /\ pc \in {"read_done", "done"}
     /\ pc = "done" => exitStatus = 0

C9_Witness ==
  /\ RawMode
  /\ argsLocal
  /\ consumed = <<CtrlS>>
  /\ prompt = <<>>
  /\ pc = "done"
  /\ exitStatus = 0

\* C10: when standard input is not a terminal the reader returns the whole
\* stream with leading and trailing whitespace trimmed, never switches the
\* terminal to raw mode, and keeps submit, cancel and backspace characters
\* of the stream as text.
C10_PipedWholeStream ==
  PipedMode
  => /\ termMode = ttyBefore
     /\ old_attrs = "unset"
     /\ raised = "none"
     /\ lines = <<>> /\ current = <<>> /\ screen = <<>>
     /\ pc # "start" => returned
     /\ returned => IsTrimOf(prompt, consumed)

C10_Witness ==
  /\ PipedMode
  /\ returned
  /\ consumed = <<CtrlC, LF, "a", LF>>
  /\ prompt = <<CtrlC, LF, "a">>
  /\ termMode = ttyBefore

Range(s) == {s[i] : i \in 1..Len(s)}

CompletionFailed ==
  \/ response.status = "error"
  \/ response.status = "ok" /\ response.choices = "none"

\* C11: any failure of the completion call (an exception of the call, or a
\* malformed response such as one with no choices) ends the run with exit
\* status 1, with one request issued and nothing of a result printed: no
\* timing/token line and no reply text.
C11_FailurePrintsNoResult ==
  (pc = "done" /\ CompletionFailed)
  => /\ exitStatus = 1
     /\ Len(requests) = 1
     /\ "Timing" \notin Range(printed)
     /\ "Reply" \notin Range(printed)

\* C12: when the reader raises the abort condition the driver recovers it and
\* the process exits with status 0; the credential is never checked and no
\* completion request is issued.
C12_AbortExitsZero ==
  raised = "KeyboardInterrupt"
  => /\ pc \in {"aborted", "done"}
     /\ ~returned
     /\ requests = <<>>
     /\ client = "none"
     /\ response = NoResponse
     /\ Range(printed) \cap {"Submitting", "KeyError", "APIError"} = {}
     /\ pc = "done" => (exitStatus = 0 /\ Last(printed) = "Aborted")

C12_Witness ==
  /\ raised = "KeyboardInterrupt"
  /\ ~argsLocal /\ ~apiKey
  /\ consumed = <<"a", CtrlC>>
  /\ pc = "done"
  /\ exitStatus = 0

\* C13: with --local the credential is not required: a run with a non-blank
\* prompt issues exactly one completion request, through the client built
\* for the fixed local base URL, whether or not OPENAI_API_KEY is set, and
\* never exits with the missing-credential error.
C13_LocalNeedsNoCredential ==
  argsLocal
  => /\ "KeyError" \notin Range(printed)
     /\ Len(requests) <= 1
     /\ client \in {"none", LOCAL_LLM_BASE_URL}
     /\ (pc = "done" /\ returned /\ ~AllWhitespace(prompt))
        => /\ Len(requests) = 1
           /\ requests[1] = prompt
           /\ client = LOCAL_LLM_BASE_URL

C13_Witness ==
  /\ argsLocal /\ ~apiKey
  /\ pc = "done"
  /\ returned
  /\ prompt = <<"a">>
  /\ requests = << <<"a">> >>
  /\ client = LOCAL_LLM_BASE_URL
  /\ exitStatus = 0

IsPrefix(a, b) == Len(a) <= Len(b) /\ SubSeq(b, 1, Len(a)) = a

\* C14: in raw mode each carriage return or newline appends the Line Buffer
\* as the new last element of Completed Lines and empties the Line Buffer,
\* and at every step the old Completed Lines is a prefix of the new one: no
\* keystroke modifies or removes a completed line.
C14_LinesAppendOnly ==
  [][RawMode
     => /\ IsPrefix(lines, lines')
        /\ (/\ pc = "raw" /\ pc' = "raw"
            /\ Len(consumed') = Len(consumed) + 1
            /\ Last(consumed') \in {CR, LF})
           => /\ lines' = Append(lines, JoinChars(current))
              /\ current' = <<>>]_vars

C14_Witness ==
  /\ RawMode
  /\ pc = "raw"
  /\ consumed = <<"a", LF, " ", CR>>
  /\ lines = << <<"a">>, <<" ">> >>
  /\ current = <<>>

\* C15: after a successful completion call a response without usage is
\* reported with token count 0, and a first choice with absent or empty
\* content is not an error: the timing/token line is printed, no reply text
\* is printed and the run ends with status 0.
C15_MissingUsageOrContent ==
  (pc = "done" /\ response.status = "ok")
  => /\ response.usage = <<>> => total_tokens = 0
     /\ response.choices \in {"null", "empty"}
        => /\ exitStatus = 0
           /\ "Timing" \in Range(printed)
           /\ Range(printed) \cap {"Reply", "APIError", "Traceback"} = {}

C15_Witness ==
  /\ pc = "done"
  /\ response = [status |-> "ok", usage |-> <<>>, choices |-> "null"]
  /\ total_tokens = 0
  /\ exitStatus = 0
  /\ Last(printed) = "Header"

\* C16: in raw mode, with every value read a character, the text on the
\* current display line equals the Line Buffer after every keystroke, and
\* the erase sequences written on the line never outnumber the characters
\* echoed on it (a backspace at an empty Line Buffer writes nothing).
C16_DisplayMatchesBuffer ==
  (RawMode /\ EOFCH \notin Range(consumed))
  => /\ screen = JoinChars(current)
     /\ erased <= echoed
     /\ Len(screen) = echoed - erased

C16_Witness ==
  /\ RawMode
  /\ pc = "raw"
  /\ consumed = <<"a", DEL, BS, " ">>
  /\ screen = <<" ">>
  /\ current = <<" ">>
  /\ echoed = 2
  /\ erased = 1

\* C17: a prompt that consists only of whitespace (newlines or spaces in raw
\* mode, blank lines in fallback or piped mode) is treated as empty: the
\* process exits with status 0 and issues no completion request, also when
\* the remote endpoint is selected and the credential is absent.
C17_WhitespaceOnlyIsEmpty ==
  (returned /\ AllWhitespace(CollectedText))
  => /\ pc \in {"read_done", "done"}
     /\ requests = <<>>
     /\ client = "none"
     /\ "KeyError" \notin Range(printed)
     /\ pc = "done" => (exitStatus = 0 /\ Last(printed) = "Empty")

C17_Witness ==
  /\ FallbackMode
  /\ ~argsLocal /\ ~apiKey
  /\ lines = << <<" ">>, <<>>, <<" ">> >>
  /\ prompt = <<" ", LF, LF, " ">>
  /\ pc = "done"
  /\ exitStatus = 0

InterpretedChars == {CtrlC, CtrlS, DEL, BS, CR}

\* C18: the text returned by the raw-mode reader contains no cancel, submit,
\* backspace/delete or carriage-return character, and a newline appears in
\* it only as the separator between two completed lines.
C18_NoControlCharsReturned ==
  (RawMode /\ returned)
  => /\ Range(prompt) \cap InterpretedChars = {}
     /\ \A i \in 1..Len(lines) : Range(lines[i]) \cap (InterpretedChars \cup {LF}) = {}
     /\ IsTrimOf(prompt, JoinLines(lines))

C18_Witness ==
  /\ RawMode
  /\ returned
  /\ consumed = <<"a", CR, "a", CtrlS>>
  /\ prompt = <<"a", LF, "a">>

TypeOK ==
  /\ pc \in {"start", "fallback", "raw", "aborted", "read_done", "submitting",
             "client_ready", "done"}
  /\ exitStatus \in {-1, 0, 1}
  /\ Len(consumed) <= MaxKeys \/ ~isatty
====
